---- MODULE Spec2Model ----
(***************************************************************************)
(* Model of the entrofy panel selector (notebooks/Diversity optimizer):    *)
(* obj, _entrofy and entrofy.                                              *)
(*                                                                         *)
(* Numbers.  Probabilities are held as integers P standing for P / Den,    *)
(* where Den is the least common multiple of 1..MaxN, so that every mean   *)
(* of at most MaxN binary rows is exact.  Logarithms are fixed-point, in   *)
(* units of 1/10000.  A score is therefore an integer in units of          *)
(* 1/(Den*10000).  A float is a record [c, v]: c = "num" with value v,     *)
(* c = "nan" (mean of an empty slice) or c = "ninf" (knocked-out delta).   *)
(* Weights are finite integers.                                            *)
(***************************************************************************)
EXTENDS Integers, Sequences, FiniteSets, TLC

\* ---------------------------------------------------------------- bounds
MaxN == 3          \* rows of X
MaxF == 1          \* attributes of X
MaxCells == 5      \* entries of X
MaxSamples == 2    \* largest n_samples

VARIABLES
    X, k, w, q, pre_selects, ns_in,  \* the arguments of the call of entrofy
    pc,                              \* where the call stands
    n_samples,                       \* entrofy's local n_samples
    results,                         \* entrofy's list of trial results
    y,                               \* the selection mask of the running _entrofy
    max_score, best, ridx,           \* the reduction of lines 213-217
    ret, err,                        \* what the call returned, or raised
    runs, draws, iters,              \* calls of _entrofy, random draws, rows added
    callNo, prev,                    \* a repeated call and the first call's outcome
    p_arg, obj_ret                   \* a direct call of obj: its p and its value

vars == <<X, k, w, q, pre_selects, ns_in,
          pc, n_samples, results, y, max_score, best, ridx,
          ret, err, runs, draws, iters, callNo, prev, p_arg, obj_ret>>

inputs == <<X, k, w, q, pre_selects, ns_in>>
objst == <<p_arg, obj_ret>>

\* ---------------------------------------------------------------- floats
Num(v) == [c |-> "num", v |-> v]
NaN == [c |-> "nan", v |-> 0]
NegInf == [c |-> "ninf", v |-> 0]

IsNaN(a) == a.c = "nan"

\* a > b in IEEE arithmetic: false as soon as one side is nan
FGt(a, b) ==
    IF IsNaN(a) \/ IsNaN(b) THEN FALSE
    ELSE IF a.c = "ninf" THEN FALSE
    ELSE IF b.c = "ninf" THEN TRUE
    ELSE a.v > b.v

FEq(a, b) ==
    IF IsNaN(a) \/ IsNaN(b) THEN FALSE
    ELSE IF a.c = "ninf" \/ b.c = "ninf" THEN a.c = b.c
    ELSE a.v = b.v

FGe(a, b) == FGt(a, b) \/ FEq(a, b)

FSub(a, b) == IF IsNaN(a) \/ IsNaN(b) THEN NaN ELSE Num(a.v - b.v)

\* ---------------------------------------------------------------- grid
RECURSIVE Gcd(_, _)
Gcd(a, b) == IF b = 0 THEN a ELSE Gcd(b, a % b)

RECURSIVE LcmUpTo(_)
LcmUpTo(m) == IF m <= 1 THEN 1
              ELSE LET l == LcmUpTo(m - 1) IN (l * m) \div Gcd(l, m)

Den == LcmUpTo(MaxN)

\* round(10000 * ln(x)) for x = 1..60
LnTab == <<0, 6931, 10986, 13863, 16094, 17918, 19459, 20794, 21972, 23026,
           23979, 24849, 25649, 26391, 27081, 27726, 28332, 28904, 29444, 29957,
           30445, 30910, 31355, 31781, 32189, 32581, 32958, 33322, 33673, 34012,
           34340, 34657, 34965, 35264, 35553, 35835, 36109, 36376, 36636, 36889,
           37136, 37377, 37612, 37842, 38067, 38286, 38501, 38712, 38918, 39120,
           39318, 39512, 39703, 39890, 40073, 40254, 40431, 40604, 40775, 40943>>

\* round(10000 * ln(1e-200)): the log of the floor amin
LnAmin == -4605170

\* np.log(P/Den + amin): the floor only shows when the argument is 0
Log(P) == IF P = 0 THEN LnAmin ELSE LnTab[P] - LnTab[Den]

RECURSIVE SumTo(_, _)
SumTo(g, m) == IF m = 0 THEN 0 ELSE g[m] + SumTo(g, m - 1)

\* ---------------------------------------------------------------- obj
\* mutant of Hterm: the (1 - p) half of the divergence is left out
HtermNoBar(P, Q) == P * (Log(P) - Log(Q))

\* H[j] of obj, times Den*10000, for p[j] = P/Den and q[j] = Q/Den
Hterm(P, Q) == P * (Log(P) - Log(Q)) + (Den - P) * (Log(Den - P) - Log(Den - Q))

obj(p, wv, qv) ==
    LET f == Len(p)
    IN  IF \E j \in 1..f : IsNaN(p[j]) THEN NaN
        ELSE Num(0 - SumTo([j \in 1..f |-> Hterm(p[j].v, qv[j]) * wv[j]], f))

\* ---------------------------------------------------------------- helpers
NRows(Xm) == Cardinality(DOMAIN Xm)
NAttr(Xm) == Len(Xm[0])

RECURSIVE SetSum(_, _)
SetSum(g, S) == IF S = {} THEN 0
                ELSE LET e == CHOOSE e \in S : TRUE IN g[e] + SetSum(g, S \ {e})

\* np.nanmean(X[y], axis=0)
Mean(Xm, sel) ==
    LET i == Cardinality(sel)
    IN  [j \in 1..NAttr(Xm) |->
            IF i = 0 THEN NaN
            ELSE Num((SetSum([e \in sel |-> Xm[e][j]], sel) * Den) \div i)]

\* (p * i + X) / (i + 1.0), the row e of it
PNew(Xm, p, i, e) ==
    [j \in 1..NAttr(Xm) |->
        IF IsNaN(p[j]) THEN NaN
        ELSE Num((p[j].v * i + Xm[e][j] * Den) \div (i + 1))]

\* obj(p_new, w, q) - obj(p, w, q), one entry per row
Gain(Xm, sel, wv, qv) ==
    LET i == Cardinality(sel)
        p == Mean(Xm, sel)
    IN  [e \in DOMAIN Xm |-> FSub(obj(PNew(Xm, p, i, e), wv, qv), obj(p, wv, qv))]

\* delta[y] = -np.inf
KnockOut(delta, sel) == [e \in DOMAIN delta |-> IF e \in sel THEN NegInf ELSE delta[e]]

\* mutant of ArgMax: a tie goes to the last maximum
ArgMaxLast(delta) ==
    LET D == DOMAIN delta
    IN  IF \E e \in D : IsNaN(delta[e])
        THEN CHOOSE e \in D : IsNaN(delta[e]) /\ \A e2 \in D : IsNaN(delta[e2]) => e <= e2
        ELSE CHOOSE e \in D : /\ \A e2 \in D : ~FGt(delta[e2], delta[e])
                              /\ \A e2 \in D : e2 > e => FGt(delta[e], delta[e2])

\* np.argmax: the first nan if there is one, else the first maximum
ArgMax(delta) ==
    LET D == DOMAIN delta
    IN  IF \E e \in D : IsNaN(delta[e])
        THEN CHOOSE e \in D : IsNaN(delta[e]) /\ \A e2 \in D : IsNaN(delta[e2]) => e <= e2
        ELSE CHOOSE e \in D : /\ \A e2 \in D : ~FGt(delta[e2], delta[e])
                              /\ \A e2 \in D : e2 < e => FGt(delta[e], delta[e2])

\* np.flatnonzero(y): the selected rows, ascending
RECURSIVE FlatNonzero(_)
FlatNonzero(sel) ==
    IF sel = {} THEN <<>>
    ELSE LET m == CHOOSE m \in sel : \A e \in sel : e <= m
         IN  Append(FlatNonzero(sel \ {m}), m)

\* np.arange(n)
Arange(n) == [j \in 1..n |-> j - 1]

\* ---------------------------------------------------------------- values
NoneSel == [given |-> FALSE, rows |-> {}]
Unset == [set |-> FALSE, rows |-> {}]
Mask(S) == [set |-> TRUE, rows |-> S]

\* what one call of _entrofy returns: a (score, idx) pair, or a bare array
PairResult(s, idx) == [kind |-> "pair", score |-> s, idx |-> idx]
ArrayResult(a) == [kind |-> "array", score |-> Num(0), idx |-> a]

\* `a, b = r`: can r be unpacked into two names
CanUnpack(r) == r.kind = "pair" \/ Len(r.idx) = 2
UnpackScore(r) == IF r.kind = "pair" THEN r.score ELSE Num(r.idx[1])
UnpackSol(r) == IF r.kind = "pair" THEN [scalar |-> FALSE, idx |-> r.idx]
                ELSE [scalar |-> TRUE, idx |-> <<r.idx[2]>>]

NoRet == [has |-> FALSE, score |-> Num(0), scalar |-> FALSE, idx |-> <<>>]
Ret(s, b) == [has |-> TRUE, score |-> s, scalar |-> b.scalar, idx |-> b.idx]
NoBest == [scalar |-> FALSE, idx |-> <<>>]
NoPrev == [pc |-> "none", err |-> "none", ret |-> NoRet]

\* ---------------------------------------------------------------- validation
\* the five asserts of _entrofy, in source order
KOk(Xm, kk) == 0 < kk /\ kk <= NRows(Xm)
WOk(wv) == ~ \E j \in 1..Len(wv) : wv[j] < 0
QOk(qv) == \A j \in 1..Len(qv) : qv[j] >= 0 /\ qv[j] <= Den
LenWOk(Xm, wv) == Len(wv) = NAttr(Xm)
LenQOk(Xm, qv) == Len(qv) = NAttr(Xm)

Violated(Xm, kk, wv, qv) ==
    {c \in {"k", "w", "q", "lenw", "lenq"} :
        \/ c = "k" /\ ~KOk(Xm, kk)
        \/ c = "w" /\ ~WOk(wv)
        \/ c = "q" /\ ~QOk(qv)
        \/ c = "lenw" /\ ~LenWOk(Xm, wv)
        \/ c = "lenq" /\ ~LenQOk(Xm, qv)}

\* mutant of Validate: the assert on k is missing
ValidateNoK(Xm, kk, wv, qv) ==
    IF ~WOk(wv) THEN "AssertionError"
    ELSE IF ~QOk(qv) THEN "AssertionError"
    ELSE IF ~LenWOk(Xm, wv) THEN "AssertionError"
    ELSE IF ~LenQOk(Xm, qv) THEN "AssertionError"
    ELSE "none"

\* mutant of Validate: the length checks raise an error of their own
ValidateTyped(Xm, kk, wv, qv) ==
    IF ~KOk(Xm, kk) THEN "AssertionError"
    ELSE IF ~WOk(wv) THEN "AssertionError"
    ELSE IF ~QOk(qv) THEN "AssertionError"
    ELSE IF ~LenWOk(Xm, wv) THEN "ShapeError"
    ELSE IF ~LenQOk(Xm, qv) THEN "ShapeError"
    ELSE "none"

\* the exception the asserts raise, "none" when all pass
Validate(Xm, kk, wv, qv) ==
    IF ~KOk(Xm, kk) THEN "AssertionError"
    ELSE IF ~WOk(wv) THEN "AssertionError"
    ELSE IF ~QOk(qv) THEN "AssertionError"
    ELSE IF ~LenWOk(Xm, wv) THEN "AssertionError"
    ELSE IF ~LenQOk(Xm, qv) THEN "AssertionError"
    ELSE "none"

\* ---------------------------------------------------------------- inputs
Shapes == {s \in (1..MaxN) \X (1..MaxF) : s[1] * s[2] <= MaxCells}
Matrices == UNION {[0..(s[1] - 1) -> [1..s[2] -> {0, 1}]] : s \in Shapes}

\* weights: an attribute that is ignored, and one that counts
WGrid == {0, 1}
\* targets: never, half of the time, always
QGrid == {0, Den \div 2, Den}

Ones(f) == [j \in 1..f |-> 1]
Halves(f) == [j \in 1..f |-> Den \div 2]

\* the all-ones weights with one entry negative, or one entry too few or too many
BadW(f) ==
    {[j \in 1..f |-> IF j = b THEN -1 ELSE 1] : b \in 1..f}
        \cup {Ones(m) : m \in {f - 1, f + 1}}

\* the all-halves targets with one entry below 0 or above 1, or one entry too
\* few or too many
BadQ(f) ==
    {[j \in 1..f |-> IF j = b THEN v ELSE Den \div 2] :
        b \in 1..f, v \in {0 - Den \div 2, Den + Den \div 2}}
        \cup {Halves(m) : m \in {f - 1, f + 1}}

\* <<k, w, q>> that pass validation on Xm
GoodArgs(Xm) == (1..NRows(Xm)) \X [1..NAttr(Xm) -> WGrid] \X [1..NAttr(Xm) -> QGrid]

\* <<k, w, q>> that break exactly one validation condition on Xm: one bad
\* argument beside k = 1, all-ones weights and all-halves targets
BadArgs(Xm) ==
    LET f == NAttr(Xm)
    IN  {<<kk, Ones(f), Halves(f)>> : kk \in {0, NRows(Xm) + 1}}
            \cup {<<1, wv, Halves(f)>> : wv \in BadW(f)}
            \cup {<<1, Ones(f), qv>> : qv \in BadQ(f)}

PreSelects(n) == {NoneSel} \cup {[given |-> TRUE, rows |-> S] : S \in SUBSET (0..(n - 1))}

Fresh ==
    /\ n_samples = ns_in
    /\ results = <<>>
    /\ y = Unset
    /\ max_score = Num(0)
    /\ best = NoBest
    /\ ridx = 0
    /\ ret = NoRet
    /\ err = "none"
    /\ runs = 0
    /\ draws = 0
    /\ iters = 0

Init ==
    /\ X \in Matrices
    /\ \E c \in GoodArgs(X) \cup BadArgs(X) :
          /\ k = c[1]
          /\ w = c[2]
          /\ q = c[3]
    /\ pre_selects \in PreSelects(NRows(X))
    /\ ns_in \in 1..MaxSamples
    /\ pc = "entrofy"
    /\ Fresh
    /\ callNo = 1
    /\ prev = NoPrev
    /\ p_arg = <<>>
    /\ obj_ret = Num(0)

\* ---------------------------------------------------------------- entrofy
\* mutant of ForcedSamples: n_samples is not forced to 1
KeepSamples(pre, ns) == ns

\* entrofy, lines 208-209: a forced seed makes the restarts pointless
ForcedSamples(pre, ns) == IF pre.given THEN 1 ELSE ns

EntrofyStart ==
    /\ pc = "entrofy"
    /\ n_samples' = ForcedSamples(pre_selects, n_samples)
    /\ pc' = "call"
    /\ UNCHANGED <<inputs, objst, results, y, max_score, best, ridx, ret, err,
                   runs, draws, iters, callNo, prev>>

\* where the list comprehension of line 211 goes after one more result
AfterRun(res) == IF Len(res) < n_samples THEN "call" ELSE "reduce"

\* _entrofy, lines 125-137: a call starts and one of its asserts fails
EnterRaise ==
    /\ pc = "call"
    /\ Validate(X, k, w, q) # "none"
    /\ runs' = runs + 1
    /\ err' = Validate(X, k, w, q)
    /\ pc' = "raised"
    /\ UNCHANGED <<inputs, objst, n_samples, results, y, max_score, best, ridx, ret,
                   draws, iters, callNo, prev>>

\* _entrofy, lines 125-140: the asserts pass and k == n returns the bare range
EnterDegenerate ==
    /\ pc = "call"
    /\ Validate(X, k, w, q) = "none"
    /\ k = NRows(X)
    /\ runs' = runs + 1
    /\ results' = Append(results, ArrayResult(Arange(NRows(X))))
    /\ pc' = AfterRun(results')
    /\ UNCHANGED <<inputs, objst, n_samples, y, max_score, best, ridx, ret, err,
                   draws, iters, callNo, prev>>

\* _entrofy, lines 125-143: the asserts pass, k < n and the mask is created
EnterInit ==
    /\ pc = "call"
    /\ Validate(X, k, w, q) = "none"
    /\ k # NRows(X)
    /\ runs' = runs + 1
    /\ y' = Mask({})
    /\ pc' = "seed"
    /\ UNCHANGED <<inputs, objst, n_samples, results, max_score, best, ridx, ret, err,
                   draws, iters, callNo, prev>>

\* _entrofy, lines 145-147: one row drawn at random when no seed is given
SeedRandom ==
    /\ pc = "seed"
    /\ ~pre_selects.given
    /\ \E r \in DOMAIN X : y' = Mask({r})
    /\ draws' = draws + 1
    /\ pc' = "loop"
    /\ UNCHANGED <<inputs, objst, n_samples, results, max_score, best, ridx, ret, err,
                   runs, iters, callNo, prev>>

\* _entrofy, line 149 with a supplied seed: y[pre_selects] = True
SeedForced ==
    /\ pc = "seed"
    /\ pre_selects.given
    /\ y' = Mask(y.rows \cup pre_selects.rows)
    /\ pc' = "loop"
    /\ UNCHANGED <<inputs, objst, n_samples, results, max_score, best, ridx, ret, err,
                   runs, draws, iters, callNo, prev>>

\* the row one iteration adds, lines 157-167
Pick(Xm, sel, wv, qv) == ArgMax(KnockOut(Gain(Xm, sel, wv, qv), sel))

\* _entrofy, lines 151-167: one iteration that adds a row
LoopAdd ==
    /\ pc = "loop"
    /\ Cardinality(y.rows) < k
    /\ y' = Mask(y.rows \cup {Pick(X, y.rows, w, q)})
    /\ iters' = iters + 1
    /\ UNCHANGED <<inputs, objst, pc, n_samples, results, max_score, best, ridx, ret, err,
                   runs, draws, callNo, prev>>

\* _entrofy, lines 152-154 and 169: i >= k breaks, the pair is returned
LoopExit ==
    /\ pc = "loop"
    /\ Cardinality(y.rows) >= k
    /\ results' = Append(results,
                     PairResult(obj(Mean(X, y.rows), w, q), FlatNonzero(y.rows)))
    /\ y' = Unset
    /\ pc' = AfterRun(results')
    /\ UNCHANGED <<inputs, objst, n_samples, max_score, best, ridx, ret, err,
                   runs, draws, iters, callNo, prev>>

\* entrofy, lines 213 and 219: max_score, best = results[0], and the return
\* when that was the only result
ReduceFirst ==
    /\ pc = "reduce"
    /\ ridx = 0
    /\ IF CanUnpack(results[1])
       THEN /\ max_score' = UnpackScore(results[1])
            /\ best' = UnpackSol(results[1])
            /\ ridx' = 1
            /\ IF Len(results) = 1
               THEN /\ ret' = Ret(max_score', best')
                    /\ pc' = "done"
               ELSE UNCHANGED <<ret, pc>>
            /\ UNCHANGED err
       ELSE /\ err' = "ValueError"
            /\ pc' = "raised"
            /\ UNCHANGED <<max_score, best, ridx, ret>>
    /\ UNCHANGED <<inputs, objst, n_samples, results, y, runs, draws, iters, callNo, prev>>

\* mutant of Better: a later trial of equal score replaces the best so far
BetterOrEqual(score, m) == FGe(score, m)

\* entrofy, line 215: does a later result replace the best so far
Better(score, m) == FGt(score, m)

\* entrofy, lines 214-219: one later result is compared with the best so far,
\* and the return after the last one
ReduceNext ==
    /\ pc = "reduce"
    /\ ridx >= 1
    /\ ridx < Len(results)
    /\ LET r == results[ridx + 1]
       IN  IF CanUnpack(r)
           THEN /\ IF Better(UnpackScore(r), max_score)
                   THEN /\ max_score' = UnpackScore(r)
                        /\ best' = UnpackSol(r)
                   ELSE UNCHANGED <<max_score, best>>
                /\ ridx' = ridx + 1
                /\ IF ridx' = Len(results)
                   THEN /\ ret' = Ret(max_score', best')
                        /\ pc' = "done"
                   ELSE UNCHANGED <<ret, pc>>
                /\ UNCHANGED err
           ELSE /\ err' = "ValueError"
                /\ pc' = "raised"
                /\ UNCHANGED <<max_score, best, ridx, ret>>
    /\ UNCHANGED <<inputs, objst, n_samples, results, y, runs, draws, iters, callNo, prev>>

Ended == pc \in {"done", "raised"}

\* the caller repeats a call that forced the seed: the same X, k, w, q and
\* pre_selects, any other n_samples, whatever state the random source is in
CallAgain ==
    /\ Ended
    /\ callNo = 1
    /\ pre_selects.given
    /\ prev' = [pc |-> pc, err |-> err, ret |-> ret]
    /\ callNo' = 2
    /\ ns_in' \in (1..MaxSamples) \ {ns_in}
    /\ n_samples' = ns_in'
    /\ pc' = "entrofy"
    /\ results' = <<>>
    /\ y' = Unset
    /\ max_score' = Num(0)
    /\ best' = NoBest
    /\ ridx' = 0
    /\ ret' = NoRet
    /\ err' = "none"
    /\ runs' = 0
    /\ draws' = 0
    /\ iters' = 0
    /\ UNCHANGED <<X, k, w, q, pre_selects, objst>>

Next ==
    \/ EntrofyStart
    \/ EnterRaise
    \/ EnterDegenerate
    \/ EnterInit
    \/ SeedRandom
    \/ SeedForced
    \/ LoopAdd
    \/ LoopExit
    \/ ReduceFirst
    \/ ReduceNext
    \/ CallAgain

Spec == Init /\ [][Next]_vars

\* ---------------------------------------------------------------- obj alone
\* obj called directly on any p and q of the grid and any valid w
InitObj ==
    /\ \E f \in 1..MaxF :
          /\ p_arg \in [1..f -> {Num(v) : v \in 0..Den}]
          /\ w \in [1..f -> WGrid]
          /\ q \in [1..f -> 0..Den]
          /\ X = [r \in 0..0 |-> [j \in 1..f |-> 0]]
    /\ k = 1
    /\ pre_selects = NoneSel
    /\ ns_in = 1
    /\ pc = "obj"
    /\ Fresh
    /\ callNo = 1
    /\ prev = NoPrev
    /\ obj_ret = Num(0)

ObjCall ==
    /\ pc = "obj"
    /\ obj_ret' = obj(p_arg, w, q)
    /\ pc' = "objdone"
    /\ UNCHANGED <<inputs, p_arg, n_samples, results, y, max_score, best, ridx,
                   ret, err, runs, draws, iters, callNo, prev>>

NextObj == ObjCall

SpecObj == InitObj /\ [][NextObj]_vars

\* ================================================================ claims
Rows == DOMAIN X
Valid == KOk(X, k) /\ WOk(w) /\ QOk(q) /\ LenWOk(X, w) /\ LenQOk(X, q)

\* a sequence of row identifiers of X, strictly ascending
AscendingRows(idx) ==
    /\ \A j \in 1..Len(idx) : idx[j] \in Rows
    /\ \A j \in 1..(Len(idx) - 1) : idx[j] < idx[j + 1]

\* C1: a call that passes validation with k < n returns exactly k unique row
\* identifiers of [0, n), sorted ascending, whatever pre_selects holds.
C1_ExactlyKSortedRows ==
    (pc = "done" /\ k < NRows(X)) =>
        /\ ~ret.scalar
        /\ Len(ret.idx) = k
        /\ AscendingRows(ret.idx)

\* C2: every row identifier passed in pre_selects appears in the index
\* sequence a valid call returns.
C2_PreSelectsContained ==
    (pc = "done" /\ pre_selects.given) =>
        \A r \in pre_selects.rows : \E j \in 1..Len(ret.idx) : ret.idx[j] = r

\* the result of trial t as entrofy's reduction reads it
TrialScore(t) == UnpackScore(results[t])
TrialPair(t) == Ret(TrialScore(t), UnpackSol(results[t]))

\* C3: without pre_selects, entrofy runs n_samples trials, returns a score
\* that is >= the score of every trial, and returns exactly the pair of the
\* lowest-numbered trial whose score is that maximum.
C3_BestOfN ==
    (pc = "done" /\ ~pre_selects.given) =>
        /\ Len(results) = ns_in
        /\ \A t \in 1..Len(results) : FGe(ret.score, TrialScore(t))
        /\ \E t \in 1..Len(results) :
              /\ ret = TrialPair(t)
              /\ \A t2 \in 1..(t - 1) : ~FEq(TrialScore(t2), ret.score)

\* two trials of a run with k < n tie on the score with different rows, and
\* the first one is returned
C3_Witness ==
    /\ pc = "done"
    /\ ~pre_selects.given
    /\ k < NRows(X)
    /\ Len(results) = 2
    /\ FEq(TrialScore(1), TrialScore(2))
    /\ results[1].idx # results[2].idx
    /\ ret = TrialPair(1)

\* C4: a valid call with k = n returns a pair whose indices are the full
\* range 0, 1, ..., n-1 in order.
C4_FullRange ==
    (Ended /\ Valid /\ k = NRows(X)) =>
        /\ pc = "done"
        /\ ~ret.scalar
        /\ ret.idx = Arange(NRows(X))

\* C5: a call with k = 0, k > n, a negative weight, a target outside [0, 1]
\* or a w or q of the wrong length ends in the validation error before any
\* selection work: no mask, no seed draw, no iteration, no trial result and
\* nothing returned.
C5_EagerValidation ==
    ~Valid =>
        /\ pc \in {"entrofy", "call", "raised"}
        /\ pc = "raised" => err = "AssertionError"
        /\ ~y.set
        /\ draws = 0
        /\ iters = 0
        /\ results = <<>>
        /\ ~ret.has

\* the last assert, on len(q), has stopped a call
C5_Witness ==
    /\ pc = "raised"
    /\ Violated(X, k, w, q) = {"lenq"}
    /\ runs = 1
    /\ ~y.set

PVals == [j \in 1..Len(p_arg) |-> p_arg[j].v]

\* C6: obj(p, w, q) <= 0, and it is 0 exactly when p = q componentwise.
C6_ZeroIffEqual ==
    pc = "objdone" =>
        /\ FGe(Num(0), obj_ret)
        /\ FEq(obj_ret, Num(0)) <=> (PVals = q)

\* C6 as amended: obj(p, w, q) <= 0, and it is 0 exactly when p[j] = q[j]
\* for every attribute j whose weight is positive.
C6_ZeroIffWeightedEqual ==
    pc = "objdone" =>
        /\ FGe(Num(0), obj_ret)
        /\ FEq(obj_ret, Num(0)) <=> (\A j \in 1..Len(w) : w[j] > 0 => PVals[j] = q[j])

\* obj is 0 although p differs from q on an attribute of weight 0, while
\* every weighted attribute meets its target
C6_Witness ==
    /\ pc = "objdone"
    /\ FEq(obj_ret, Num(0))
    /\ \E j \in 1..Len(w) : w[j] = 0 /\ PVals[j] # q[j]
    /\ \A j \in 1..Len(w) : w[j] > 0 => PVals[j] = q[j]

\* C7: with pre_selects supplied one run of _entrofy is made and no random
\* draw, and a repeated call with the same X, k, w, q and pre_selects ends as
\* the first did, whatever n_samples either call was given.
C7_ForcedSeedDeterministic ==
    pre_selects.given =>
        /\ draws = 0
        /\ runs <= 1
        /\ Ended => runs = 1
        /\ (Ended /\ callNo = 2) => (pc = prev.pc /\ err = prev.err /\ ret = prev.ret)

\* a repeated forced-seed call, made with more than one sample asked for, has
\* returned after adding rows greedily
C7_Witness ==
    /\ pre_selects.given
    /\ callNo = 2
    /\ pc = "done"
    /\ ns_in > 1
    /\ k < NRows(X)
    /\ iters >= 1
    /\ ret.has

C9_GreedyStep ==
    [][iters' = iters + 1 =>
          LET sel == y.rows
              d == Gain(X, sel, w, q)
          IN  /\ Cardinality(sel) < k
              /\ k < NRows(X)
              /\ \E r \in Rows \ sel :
                    /\ y'.rows = sel \cup {r}
                    /\ \A e \in Rows \ sel : ~FGt(d[e], d[r])
                    /\ \A e \in Rows \ sel : e < r => ~FGe(d[e], d[r])
    ]_vars

\* the loop has just added row r although a later unselected row had the
\* same gain: the tie went to the lower index
C9_Witness ==
    /\ pc = "loop"
    /\ iters = 1
    /\ \E r \in y.rows :
          LET sel == y.rows \ {r}
              d == Gain(X, sel, w, q)
          IN  /\ sel # {}
              /\ Pick(X, sel, w, q) = r
              /\ \E e \in Rows \ y.rows : e > r /\ FEq(d[e], d[r])

\* C10: in one greedy run with k < n the mask holds at most k rows at all
\* times, for any seed set, and exactly k rows when the run returns.
C10_MaskWithinK ==
    /\ y.set => Cardinality(y.rows) <= k
    /\ \A t \in 1..Len(results) : results[t].kind = "pair" => Len(results[t].idx) = k

====
